---- MODULE Spec2Model ----
(***************************************************************************)
(* GitHub webhook receiver (src/run.py): POST /github-webhook verifies the *)
(* X-Hub-Signature-256 header, parses the JSON body, normalises push /     *)
(* pull_request / merge deliveries into GitHubEvent documents and saves    *)
(* them; GET /events lists the most recent documents by timestamp.         *)
(*                                                                         *)
(* Encoding.  A JSON / Python value is a record [t, v]: t is its type and  *)
(* v, for a string, the sequence of its tokens (a string is modelled as    *)
(* the sequence of the pieces the code's string operations look at).       *)
(* Each handler is one atomic action: its only access to shared state is   *)
(* the single doc.save() / the single query, so a concurrent execution is  *)
(* equivalent to the handlers taken in the order of those accesses.  The   *)
(* clock value a handler read (utcnow) and the outcome of the database     *)
(* call are inputs of the request's environment.                           *)
(***************************************************************************)
EXTENDS Integers, Sequences, FiniteSets, TLC

VARIABLES
    GITHUB_SECRET,  \* the webhook secret, read from the environment at start-up
    store,      \* the GitHubEvent collection, in insertion order
    exchange,   \* the HTTP exchange being served: idle, received, or responded
    accepted    \* history: number of deliveries answered 201 so far

vars == <<GITHUB_SECRET, store, exchange, accepted>>

----------------------------------------------------------------------------
(* Bounds *)

MaxStore == 2

----------------------------------------------------------------------------
(* JSON / Python values *)

Absent == [t |-> "absent", v |-> <<>>]   \* key not in the object
Null == [t |-> "null", v |-> <<>>]       \* JSON null / Python None
Str(s) == [t |-> "str", v |-> s]
Bool(b) == [t |-> "bool", v |-> <<b>>]
True == Bool("true")
False == Bool("false")

\* Python truthiness of a value
Truthy(x) == \/ x.t = "str" /\ x.v # <<>>
             \/ x = True

\* dict.get(key, default)
DictGet(x, default) == IF x = Absent THEN default ELSE x

\* outcome of evaluating an expression: a value or a raised exception
Ok(x) == [exc |-> "", val |-> x]
Raise(e) == [exc |-> e, val |-> Null]

\* obj[key1][key2] where obj[key1] is absent, null or an object holding leaf
Index2(tag, leaf) ==
    IF tag = "absent" THEN Raise("KeyError")
    ELSE IF tag = "null" THEN Raise("TypeError")
    ELSE IF leaf = Absent THEN Raise("KeyError")
    ELSE Ok(leaf)

----------------------------------------------------------------------------
(* Signature verification *)

\* hmac.new(key, msg=data, digestmod=sha256).hexdigest(): a keyed digest of the
\* raw bytes, one distinct hex string per (key, data)
HexDigest(key, data) ==
    CASE key = "s3cret" /\ data = "d1" -> "hmac_s3cret_d1"
      [] key = "s3cret" /\ data = "d2" -> "hmac_s3cret_d2"
      [] key = "guess" /\ data = "d1" -> "hmac_guess_d1"
      [] key = "guess" /\ data = "d2" -> "hmac_guess_d2"
      [] key = "" /\ data = "d1" -> "hmac__d1"
      [] OTHER -> "hmac__d2"

\* a header value is the sequence of its pieces between "=" signs; <<>> is a
\* header that was not sent (headers.get returns None)
NoHeader == <<>>
NonAscii == "\\xe9"

IsAscii(parts) == \A i \in 1..Len(parts) : parts[i] # NonAscii

\* hmac.compare_digest(a, b) on two str: TypeError unless both are ASCII
compare_digest(a, b) ==
    IF ~(IsAscii(a) /\ IsAscii(b)) THEN Raise("TypeError")
    ELSE Ok(Bool(IF a = b THEN "true" ELSE "false"))

\* an abort(code, text) or an uncaught exception ends the request
Pass == [code |-> 0, text |-> ""]
Abort(code, text) == [code |-> code, text |-> text]
Crash == Abort(500, "Internal Server Error")

verify_github_signature(key, req) ==
    LET h == req.sig IN
    IF h = NoHeader \/ h = <<"">> THEN Abort(400, "Missing X-Hub-Signature-256 header")
    ELSE IF Len(h) < 2 THEN Abort(400, "Malformed X-Hub-Signature-256 header")
    ELSE IF h[1] # "sha256" THEN Abort(400, "We only support sha256 signatures")
    ELSE LET c == compare_digest(<<HexDigest(key, req.data)>>, Tail(h)) IN
         IF c.exc # "" THEN Crash
         ELSE IF c.val # True THEN Abort(400, "Invalid signature")
         ELSE Pass

----------------------------------------------------------------------------
(* Timestamps *)

\* str.replace("Z", "+00:00"): every "Z" piece becomes "+00:00"
ReplaceZ(s) == [i \in 1..Len(s) |-> IF s[i] = "Z" THEN "+00:00" ELSE s[i]]

ClockHour(tok) ==
    CASE tok = "01:00" -> 1
      [] tok = "02:00" -> 2
      [] tok = "03:00" -> 3
      [] OTHER -> -1

OffsetHours(tok) ==
    CASE tok = "+00:00" -> 0
      [] tok = "+01:00" -> 1
      [] OTHER -> -1

\* datetime.fromisoformat(s) followed by the UTC conversion the driver applies
\* when the document is written: the instant (in hours) the string denotes; a
\* string with no offset is a naive datetime and is stored as it stands
fromisoformat(s) ==
    IF Len(s) = 1 /\ ClockHour(s[1]) >= 0 THEN Ok(ClockHour(s[1]))
    ELSE IF Len(s) = 2 /\ ClockHour(s[1]) >= 0 /\ OffsetHours(s[2]) >= 0
         THEN Ok(ClockHour(s[1]) - OffsetHours(s[2]))
    ELSE Raise("ValueError")

\* datetime.fromisoformat(x.replace("Z", "+00:00")) if x else datetime.utcnow()
event_time_of(x, utcnow) ==
    IF ~Truthy(x) THEN Ok(utcnow)
    ELSE IF x.t # "str" THEN Raise("AttributeError")
    ELSE fromisoformat(ReplaceZ(x.v))

----------------------------------------------------------------------------
(* Normalisation (the dispatch of github_webhook) *)

RefsHeads == "refs/heads/"

startswith(s, tok) == Len(s) >= 1 /\ s[1] = tok

\* index of the first occurrence of tok in s, 0 if none
RECURSIVE FirstIndex(_, _, _)
FirstIndex(s, tok, i) ==
    IF i > Len(s) THEN 0
    ELSE IF s[i] = tok THEN i
    ELSE FirstIndex(s, tok, i + 1)

\* s.replace(tok, "", 1)
replace_first(s, tok) ==
    LET i == FirstIndex(s, tok, 1) IN
    IF i = 0 THEN s ELSE SubSeq(s, 1, i - 1) \o SubSeq(s, i + 1, Len(s))

to_branch_of_all(ref) ==
    IF startswith(ref, RefsHeads) THEN SelectSeq(ref, LAMBDA c : c # RefsHeads) ELSE ref

\* ref.replace("refs/heads/", "", 1) if ref.startswith("refs/heads/") else ref
to_branch_of(ref) ==
    IF startswith(ref, RefsHeads) THEN replace_first(ref, RefsHeads) ELSE ref

\* outcomes of the dispatch
Raised(e) == [kind |-> "raise", text |-> e, arg |-> Null, event_type |-> "",
              author |-> Null, from_branch |-> Null, to_branch |-> Null, event_time |-> -1]
Ignored(text, arg) == [Raised("") EXCEPT !.kind = "ignore", !.text = text, !.arg = arg]
Fields(et, au, fb, tb, ts) ==
    [kind |-> "fields", text |-> "", arg |-> Null, event_type |-> et,
     author |-> au, from_branch |-> fb, to_branch |-> tb, event_time |-> ts]

\* payload.get("repository", {}).get("full_name", "unknown/unknown")
repo_full_name_of(p) ==
    IF p.repository = "absent" THEN Ok(Str(<<"unknown/unknown">>))
    ELSE IF p.repository = "null" THEN Raise("AttributeError")
    ELSE Ok(DictGet(p.full_name, Str(<<"unknown/unknown">>)))

\* src/run.py lines 88-100
normalize_push(p, utcnow) ==
    LET author == Index2(p.pusher, p.pusher_name)
        ref == DictGet(p.ref, Str(<<>>))
        head == p.head_commit
        ts == IF head = "obj" THEN event_time_of(p.hc_timestamp, utcnow) ELSE Ok(utcnow)
    IN  IF author.exc # "" THEN Raised(author.exc)
        ELSE IF ref.t # "str" THEN Raised("AttributeError")
        ELSE IF ts.exc # "" THEN Raised(ts.exc)
        ELSE Fields("push", author.val, Null, Str(to_branch_of(ref.v)), ts.val)

\* src/run.py lines 108-115 and 118-125: the two recorded pull_request cases
\* differ in the event type, in whose login is the author and in the timestamp
normalize_pr(p, utcnow, et, whoTag, whoLogin, when) ==
    LET author == Index2(whoTag, whoLogin)
        from == Index2(p.head, p.head_ref)
        to == Index2(p.base, p.base_ref)
        ts == event_time_of(when, utcnow)
    IN  IF p.pull_request = "absent" THEN Raised("KeyError")
        ELSE IF p.pull_request = "null" THEN Raised("TypeError")
        ELSE IF author.exc # "" THEN Raised(author.exc)
        ELSE IF from.exc # "" THEN Raised(from.exc)
        ELSE IF to.exc # "" THEN Raised(to.exc)
        ELSE IF ts.exc # "" THEN Raised(ts.exc)
        ELSE Fields(et, author.val, from.val, to.val, ts.val)

\* pr_data.get("merged") == True
is_merged(p) ==
    IF p.pull_request = "null" THEN Raise("AttributeError")
    ELSE IF p.pull_request = "absent" THEN Ok(False)
    ELSE Ok(Bool(IF p.merged = True THEN "true" ELSE "false"))

normalize_merge_by_user(header, p, utcnow) ==
    IF header = "push" THEN normalize_push(p, utcnow)
    ELSE IF header = "pull_request" THEN
        LET pr_action == DictGet(p.action, Str(<<>>)) IN
        IF pr_action = Str(<<"opened">>)
        THEN normalize_pr(p, utcnow, "pull_request", p.user, p.user_login, p.created_at)
        ELSE IF pr_action # Str(<<"closed">>)
        THEN Ignored("Ignored pull_request action=", pr_action)
        ELSE IF is_merged(p).exc # "" THEN Raised(is_merged(p).exc)
        ELSE IF is_merged(p).val = True
        THEN normalize_pr(p, utcnow, "merge", p.user, p.user_login, p.merged_at)
        ELSE Ignored("Ignored pull_request action=", pr_action)
    ELSE Ignored("Ignored event type=", Str(<<header>>))

\* src/run.py lines 87-132
normalize(header, p, utcnow) ==
    IF header = "push" THEN normalize_push(p, utcnow)
    ELSE IF header = "pull_request" THEN
        LET pr_action == DictGet(p.action, Str(<<>>)) IN
        IF pr_action = Str(<<"opened">>)
        THEN normalize_pr(p, utcnow, "pull_request", p.user, p.user_login, p.created_at)
        ELSE IF pr_action # Str(<<"closed">>)
        THEN Ignored("Ignored pull_request action=", pr_action)
        ELSE IF is_merged(p).exc # "" THEN Raised(is_merged(p).exc)
        ELSE IF is_merged(p).val = True
        THEN normalize_pr(p, utcnow, "merge", p.merged_by, p.merged_by_login, p.merged_at)
        ELSE Ignored("Ignored pull_request action=", pr_action)
    ELSE Ignored("Ignored event type=", Str(<<header>>))

----------------------------------------------------------------------------
(* POST /github-webhook *)

NoDoc == [event_type |-> "", author |-> Null, from_branch |-> Null, to_branch |-> Null,
          timestamp |-> -1, repo_full_name |-> Null]

\* what a request ends with: the response, and what the handler did on the way
Result(code, text, arg, parsed, saves, doc, stored) ==
    [code |-> code, text |-> text, arg |-> arg, parsed |-> parsed, saves |-> saves,
     doc |-> doc, stored |-> stored]

\* if GITHUB_SECRET: verify_github_signature(request)
signature_step_always(key, req) == verify_github_signature(key, req)

signature_step(key, req) ==
    IF key # "" THEN verify_github_signature(key, req) ELSE Pass

\* if not (event_type and author and to_branch and event_time)
validate_required_noauthor(n) == n.event_type # "" /\ Truthy(n.to_branch)

validate_required(n) ==
    n.event_type # "" /\ Truthy(n.author) /\ Truthy(n.to_branch)

\* src/run.py lines 138-154; db is the outcome of GitHubEvent(...).save()
save_step_retry(n, repo, db) ==
    LET doc == [event_type |-> n.event_type, author |-> n.author,
                from_branch |-> n.from_branch, to_branch |-> n.to_branch,
                timestamp |-> n.event_time, repo_full_name |-> repo]
    IN  IF db = "ok"
        THEN Result(201, "Recorded", Str(<<n.event_type>>), TRUE, 1, doc, TRUE)
        ELSE Result(500, "Database error", Null, TRUE, 2, NoDoc, FALSE)

save_step_unchecked(n, repo, db) ==
    LET doc == [event_type |-> n.event_type, author |-> n.author,
                from_branch |-> n.from_branch, to_branch |-> n.to_branch,
                timestamp |-> n.event_time, repo_full_name |-> repo]
    IN  Result(201, "Recorded", Str(<<n.event_type>>), TRUE, 1, doc, db = "ok")

save_step(n, repo, db) ==
    LET doc == [event_type |-> n.event_type, author |-> n.author,
                from_branch |-> n.from_branch, to_branch |-> n.to_branch,
                timestamp |-> n.event_time, repo_full_name |-> repo]
    IN  IF db = "ok"
        THEN Result(201, "Recorded", Str(<<n.event_type>>), TRUE, 1, doc, TRUE)
        ELSE Result(500, "Database error", Null, TRUE, 1, NoDoc, FALSE)

\* request.headers.get("X-GitHub-Event", "")
event_header(req) == IF req.event = NoHeader THEN "" ELSE req.event[1]

\* src/run.py lines 57-154
github_webhook(key, req) ==
    LET v == signature_step(key, req)
        repo == repo_full_name_of(req.payload)
        n == normalize(event_header(req), req.payload, req.utcnow)
    IN  IF v # Pass THEN Result(v.code, v.text, Null, FALSE, 0, NoDoc, FALSE)
        ELSE IF req.json = "invalid"
        THEN Result(400, "Invalid JSON", Null, TRUE, 0, NoDoc, FALSE)
        ELSE IF req.json # "object" \/ repo.exc # ""
        THEN Result(500, "Internal Server Error", Null, TRUE, 0, NoDoc, FALSE)
        ELSE IF n.kind = "ignore" THEN Result(200, n.text, n.arg, TRUE, 0, NoDoc, FALSE)
        ELSE IF n.kind = "raise"
        THEN Result(500, "Internal Server Error", Null, TRUE, 0, NoDoc, FALSE)
        ELSE IF ~validate_required(n)
        THEN Result(400, "Missing required fields from payload", Null, TRUE, 0, NoDoc, FALSE)
        ELSE save_step(n, repo.val, req.db)

----------------------------------------------------------------------------
(* GET /events *)

DefaultLimit == 20

DigitValue(tok) ==
    CASE tok = "0" -> 0
      [] tok = "1" -> 1
      [] tok = "2" -> 2
      [] tok = "3" -> 3
      [] OTHER -> -1

\* value of a non-empty sequence of decimal digits, -1 if a piece is not a digit
RECURSIVE Decimal(_)
Decimal(s) ==
    IF s = <<>> THEN 0
    ELSE LET hi == Decimal(SubSeq(s, 1, Len(s) - 1))
             lo == DigitValue(s[Len(s)])
         IN  IF hi < 0 \/ lo < 0 THEN -1 ELSE 10 * hi + lo

\* int(s): ValueError unless s is an optional sign followed by digits
int_of(s) ==
    LET neg == Len(s) >= 1 /\ s[1] = "-"
        digits == IF neg THEN Tail(s) ELSE s
    IN  IF digits = <<>> \/ Decimal(digits) < 0 THEN Raise("ValueError")
        ELSE Ok(IF neg THEN 0 - Decimal(digits) ELSE Decimal(digits))

\* try: limit = int(request.args.get("limit", 20)) except ValueError: limit = 20
limit_of(param) ==
    IF param = Absent THEN DefaultLimit
    ELSE IF int_of(param.v).exc # "" THEN DefaultLimit
    ELSE int_of(param.v).val

\* the orders in which the database may return the collection
order_by_insertion(docs) == {docs}

\* GitHubEvent.objects.order_by("-timestamp"): the documents in descending
\* timestamp order; the order among equal timestamps is the database's choice
order_by_timestamp_desc(docs) ==
    {s \in {[i \in 1..Len(docs) |-> docs[f[i]]] : f \in Permutations(1..Len(docs))} :
        \A i \in 1..Len(s) - 1 : s[i].timestamp >= s[i + 1].timestamp}

\* .limit(n) on a cursor of `total` documents: the numbers of documents a
\* query may return.  A positive n caps the result; what 0 and negative n
\* select depends on the driver version (nothing, everything, or abs(n))
limit_counts(n, total) ==
    IF n > 0 THEN {IF n < total THEN n ELSE total} ELSE 0..total

----------------------------------------------------------------------------
(* Requests *)

EmptyPayload ==
    [repository |-> "absent", full_name |-> Absent,
     pusher |-> "absent", pusher_name |-> Absent,
     ref |-> Absent,
     head_commit |-> "absent", hc_timestamp |-> Absent,
     action |-> Absent,
     pull_request |-> "absent", merged |-> Absent,
     user |-> "absent", user_login |-> Absent,
     head |-> "absent", head_ref |-> Absent,
     base |-> "absent", base_ref |-> Absent,
     merged_by |-> "absent", merged_by_login |-> Absent,
     created_at |-> Absent, merged_at |-> Absent]

NoReq == [sig |-> NoHeader, data |-> "d1", event |-> NoHeader, json |-> "object",
          payload |-> EmptyPayload, utcnow |-> 0, db |-> "ok"]

NoRes == Result(0, "", Null, FALSE, 0, NoDoc, FALSE)

Idle == [phase |-> "idle", kind |-> "", req |-> NoReq, res |-> NoRes,
         param |-> Absent, limit |-> 0, listing |-> <<>>]

----------------------------------------------------------------------------
(* Request domains *)

GoodSig == <<"sha256", HexDigest("s3cret", "d1")>>

SigHeaders ==
    {NoHeader, <<"">>, <<"sha256">>, <<"sha1", HexDigest("s3cret", "d1")>>,
     GoodSig, <<"sha256", HexDigest("s3cret", "d2")>>,
     <<"sha256", HexDigest("guess", "d1")>>, <<"sha256", HexDigest("", "d1")>>,
     <<"sha256", NonAscii>>, <<"sha256", HexDigest("s3cret", "d1"), "x">>}

Repos == {<<"absent", Absent>>, <<"null", Absent>>, <<"obj", Absent>>,
          <<"obj", Str(<<"o/r">>)>>}

Pushers == {<<"absent", Absent>>, <<"null", Absent>>, <<"obj", Absent>>,
            <<"obj", Null>>, <<"obj", Str(<<>>)>>, <<"obj", Str(<<"alice">>)>>}

Refs == {Absent, Null, Str(<<>>), Str(<<RefsHeads>>), Str(<<RefsHeads, "main">>),
         Str(<<"main">>), Str(<<RefsHeads, RefsHeads, "main">>),
         Str(<<"refs/tags/", RefsHeads, "main">>)}

HeadCommits == {<<"absent", Absent>>, <<"null", Absent>>, <<"obj", Absent>>,
                <<"obj", Null>>, <<"obj", Str(<<>>)>>, <<"obj", Str(<<"yesterday">>)>>,
                <<"obj", Str(<<"01:00", "Z">>)>>, <<"obj", Str(<<"03:00", "+01:00">>)>>,
                <<"obj", Str(<<"03:00">>)>>}

PushPayloads ==
    {[EmptyPayload EXCEPT !.repository = r[1], !.full_name = r[2],
                          !.pusher = u[1], !.pusher_name = u[2], !.ref = ref,
                          !.head_commit = h[1], !.hc_timestamp = h[2]] :
        r \in Repos, u \in Pushers, ref \in Refs, h \in HeadCommits}

Actions == {Absent, Str(<<"opened">>), Str(<<"closed">>), Str(<<"edited">>)}
Mergeds == {Absent, True, False}
Users == {<<"absent", Absent>>, <<"obj", Absent>>, <<"obj", Str(<<"bob">>)>>}
Heads == {<<"absent", Absent>>, <<"obj", Null>>, <<"obj", Str(<<"feature">>)>>}
Bases == {<<"absent", Absent>>, <<"obj", Str(<<>>)>>, <<"obj", Str(<<"main">>)>>}
Mergers == {<<"absent", Absent>>, <<"null", Absent>>, <<"obj", Str(<<"carol">>)>>}
CreatedAts == {Absent, Str(<<"yesterday">>), Str(<<"01:00", "Z">>)}
MergedAts == {Absent, Str(<<>>), Str(<<"02:00", "Z">>)}

PullRequestPayloads ==
    {[EmptyPayload EXCEPT !.action = a, !.pull_request = "obj", !.merged = m,
                          !.user = u[1], !.user_login = u[2],
                          !.head = h[1], !.head_ref = h[2],
                          !.base = b[1], !.base_ref = b[2],
                          !.merged_by = g[1], !.merged_by_login = g[2],
                          !.created_at = c, !.merged_at = d] :
        a \in Actions, m \in Mergeds, u \in Users, h \in Heads, b \in Bases,
        g \in Mergers, c \in CreatedAts, d \in MergedAts}
    \cup {[EmptyPayload EXCEPT !.action = a, !.pull_request = t] :
            a \in Actions, t \in {"absent", "null"}}

\* a well-formed push and a well-formed merged pull request
PushMain ==
    [EmptyPayload EXCEPT !.repository = "obj", !.full_name = Str(<<"o/r">>),
                         !.pusher = "obj", !.pusher_name = Str(<<"alice">>),
                         !.ref = Str(<<RefsHeads, "main">>),
                         !.head_commit = "obj", !.hc_timestamp = Str(<<"01:00", "Z">>)]

MergeFeature ==
    [EmptyPayload EXCEPT !.action = Str(<<"closed">>), !.pull_request = "obj",
                         !.merged = True, !.head = "obj", !.head_ref = Str(<<"feature">>),
                         !.base = "obj", !.base_ref = Str(<<"main">>),
                         !.merged_by = "obj", !.merged_by_login = Str(<<"carol">>),
                         !.merged_at = Str(<<"02:00", "Z">>)]

Request(sig, data, event, json, payload, utcnow, db) ==
    [sig |-> sig, data |-> data, event |-> event, json |-> json, payload |-> payload,
     utcnow |-> utcnow, db |-> db]

\* every signature header against a few bodies
SignatureRequests ==
    {Request(g, d, <<"push">>, j, PushMain, 2, "ok") :
        g \in SigHeaders, d \in {"d1", "d2"}, j \in {"invalid", "object"}}

PushRequests ==
    {Request(g, "d1", <<"push">>, "object", p, 2, db) :
        g \in {NoHeader, GoodSig}, p \in PushPayloads, db \in {"ok", "fail"}}

PullRequestRequests ==
    {Request(GoodSig, "d1", <<"pull_request">>, "object", p, 3, db) :
        p \in PullRequestPayloads, db \in {"ok", "fail"}}

\* other event headers, and bodies that are not JSON objects
OtherRequests ==
    {Request(g, "d1", e, j, p, 2, "ok") :
        g \in {NoHeader, GoodSig}, e \in {NoHeader, <<"">>, <<"issues">>, <<"Push">>},
        j \in {"invalid", "array", "object"},
        p \in {EmptyPayload, PushMain, MergeFeature,
               [PushMain EXCEPT !.repository = "null"]}}
    \cup {Request(GoodSig, "d1", e, "array", EmptyPayload, 2, "ok") :
            e \in {<<"push">>, <<"pull_request">>}}

AllRequests == SignatureRequests \cup PushRequests \cup PullRequestRequests \cup OtherRequests

\* the deliveries of the running system: one or two per path of the handler
OpenedFeature ==
    [EmptyPayload EXCEPT !.action = Str(<<"opened">>), !.pull_request = "obj",
                         !.user = "obj", !.user_login = Str(<<"bob">>),
                         !.head = "obj", !.head_ref = Str(<<"feature">>),
                         !.base = "obj", !.base_ref = Str(<<"main">>),
                         !.created_at = Str(<<"03:00">>)]

SystemRequests ==
    {Request(GoodSig, "d1", <<"push">>, "object", PushMain, 3, db) : db \in {"ok", "fail"}}
    \cup {Request(g, "d1", <<"push">>, "object",
                  [PushMain EXCEPT !.head_commit = "null", !.hc_timestamp = Absent], 2, "ok") :
            g \in {NoHeader, GoodSig, <<"sha256", NonAscii>>, <<"sha256", HexDigest("guess", "d1")>>}}
    \cup {Request(GoodSig, "d1", <<"pull_request">>, "object", p, 0, "ok") :
            p \in {MergeFeature, OpenedFeature,
                   [MergeFeature EXCEPT !.merged = False],
                   [OpenedFeature EXCEPT !.user = "absent"]}}
    \cup {Request(GoodSig, "d1", <<"push">>, j, p, 1, "ok") :
            j \in {"invalid", "object"},
            p \in {[PushMain EXCEPT !.pusher_name = Str(<<>>)],
                   [PushMain EXCEPT !.ref = Str(<<RefsHeads>>)],
                   [PushMain EXCEPT !.hc_timestamp = Str(<<"yesterday">>)]}}
    \cup {Request(GoodSig, "d1", <<"issues">>, "object", EmptyPayload, 1, "ok")}

LimitParams ==
    {Absent, Str(<<>>), Str(<<"x">>), Str(<<"1", "x">>), Str(<<"0">>), Str(<<"1">>),
     Str(<<"2">>), Str(<<"2", "0">>), Str(<<"-", "1">>)}

----------------------------------------------------------------------------
(* Actions *)

\* a delivery reaches the server
Receive ==
    /\ exchange.phase # "received"
    /\ Len(store) < MaxStore
    /\ \E req \in SystemRequests :
        exchange' = [Idle EXCEPT !.phase = "received", !.kind = "webhook", !.req = req]
    /\ UNCHANGED <<GITHUB_SECRET, store, accepted>>

\* github_webhook serves the delivery: doc.save() inserts the document, to
\* which the database gives a fresh id
HandleWebhook ==
    /\ exchange.phase = "received"
    /\ LET res == github_webhook(GITHUB_SECRET, exchange.req) IN
        /\ exchange' = [exchange EXCEPT !.phase = "responded", !.res = res]
        /\ store' = IF res.stored
                    THEN Append(store, [id |-> Len(store) + 1] @@ res.doc)
                    ELSE store
        /\ accepted' = IF res.code = 201 THEN accepted + 1 ELSE accepted
    /\ UNCHANGED GITHUB_SECRET

\* list_events serves GET /events?limit=param
list_events ==
    /\ exchange.phase # "received"
    /\ \E param \in LimitParams :
        LET limit == limit_of(param) IN
        \E sorted \in order_by_timestamp_desc(store) :
        \E n \in limit_counts(limit, Len(store)) :
            exchange' = [Idle EXCEPT !.phase = "responded", !.kind = "events",
                                     !.param = param, !.limit = limit,
                                     !.res = Result(200, "", Null, FALSE, 0, NoDoc, FALSE),
                                     !.listing = SubSeq(sorted, 1, n)]
    /\ UNCHANGED <<GITHUB_SECRET, store, accepted>>

Secrets == {"", "s3cret"}

Init ==
    /\ GITHUB_SECRET \in Secrets
    /\ store = <<>>
    /\ exchange = Idle
    /\ accepted = 0

Next == Receive \/ HandleWebhook \/ list_events

Spec == Init /\ [][Next]_vars

\* one delivery, drawn from the whole request domain, served by a server whose
\* collection is empty or holds an earlier push
EarlierPush ==
    [id |-> 1, event_type |-> "push", author |-> Str(<<"alice">>), from_branch |-> Null,
     to_branch |-> Str(<<"main">>), timestamp |-> 1, repo_full_name |-> Str(<<"o/r">>)]

InitDelivery ==
    /\ GITHUB_SECRET \in Secrets
    /\ store \in {<<>>, <<EarlierPush>>}
    /\ accepted = Len(store)
    /\ \E req \in AllRequests :
        exchange = [Idle EXCEPT !.phase = "received", !.kind = "webhook", !.req = req]

NextDelivery == HandleWebhook

SpecDelivery == InitDelivery /\ [][NextDelivery]_vars

----------------------------------------------------------------------------
(* Shorthands for the properties *)

Responded == exchange.phase = "responded" /\ exchange.kind = "webhook"
Listed == exchange.phase = "responded" /\ exchange.kind = "events"
Req == exchange.req
Res == exchange.res
Payload == exchange.req.payload
Newest == store[Len(store)]

\* the signature header of the delivery does not verify under the secret
SignatureFails ==
    \/ Req.sig = NoHeader
    \/ Len(Req.sig) = 1
    \/ Len(Req.sig) >= 2 /\ Req.sig[1] # "sha256"
    \/ Len(Req.sig) >= 2 /\ Tail(Req.sig) # <<HexDigest(GITHUB_SECRET, Req.data)>>

\* the delivery got past the signature step and its body parsed as JSON
PassedSignatureAndJson ==
    /\ GITHUB_SECRET # "" => ~SignatureFails
    /\ Req.json # "invalid"

----------------------------------------------------------------------------
(* Properties of one delivery (SpecDelivery) *)

\* C1: with a secret configured, a delivery whose signature header is missing,
\* has no "=", names another algorithm or carries a digest other than the HMAC
\* of the raw body is answered 400, its body is never parsed and nothing is
\* stored.
C1_SignatureFailureAnswered400 ==
    (GITHUB_SECRET # "" /\ Responded /\ SignatureFails)
        => (Res.code = 400 /\ ~Res.parsed /\ ~Res.stored)

\* what does hold of a failed verification: the request ends before the body
\* is parsed and nothing is stored; the answer is 400 unless the digest in the
\* header is not ASCII, which compare_digest rejects with a TypeError (500)
SignatureFailureRejected ==
    (GITHUB_SECRET # "" /\ Responded /\ SignatureFails)
        => /\ ~Res.parsed /\ ~Res.stored
           /\ Res.code = IF Len(Req.sig) >= 2 /\ Req.sig[1] = "sha256"
                            /\ ~IsAscii(Tail(Req.sig))
                         THEN 500 ELSE 400

NotRecordable ==
    \/ event_header(Req) \notin {"push", "pull_request"}
    \/ /\ event_header(Req) = "pull_request"
       /\ Payload.action # Str(<<"opened">>)
       /\ ~(Payload.action = Str(<<"closed">>) /\ Payload.pull_request = "obj"
            /\ Payload.merged = True)

\* C4: a delivery past the signature and JSON steps whose event header is
\* neither push nor pull_request, or is pull_request with an action other than
\* opened or closed-and-merged, is answered 200 and stores nothing.
C4_UnhandledEventsIgnored ==
    (Responded /\ PassedSignatureAndJson /\ NotRecordable)
        => (Res.code = 200 /\ ~Res.stored)

\* what does hold: the delivery is ignored when its body is a JSON object
\* whose repository and pull_request are not null
UnhandledObjectEventsIgnored ==
    (Responded /\ PassedSignatureAndJson /\ NotRecordable /\ Req.json = "object"
     /\ Payload.repository # "null" /\ Payload.pull_request # "null")
        => (Res.code = 200 /\ ~Res.stored)

WellFormedTimestamps ==
    {Str(<<"01:00", "Z">>), Str(<<"02:00", "Z">>), Str(<<"03:00", "+01:00">>),
     Str(<<"03:00">>)}

Malformed(ts) == ts.t = "str" /\ ts \notin WellFormedTimestamps

Lacks(tag, leaf) == tag # "obj" \/ leaf = Absent

\* the delivery is a push, an opened or a merged pull request
Recordable(kind) ==
    /\ Req.json = "object"
    /\ Payload.repository # "null"
    /\ CASE kind = "push" -> event_header(Req) = "push"
         [] kind = "opened" -> /\ event_header(Req) = "pull_request"
                               /\ Payload.pull_request = "obj"
                               /\ Payload.action = Str(<<"opened">>)
         [] OTHER -> /\ event_header(Req) = "pull_request"
                     /\ Payload.pull_request = "obj"
                     /\ Payload.action = Str(<<"closed">>) /\ Payload.merged = True

MissingField ==
    \/ Recordable("push") /\ Lacks(Payload.pusher, Payload.pusher_name)
    \/ /\ Recordable("opened")
       /\ \/ Lacks(Payload.user, Payload.user_login)
          \/ Lacks(Payload.head, Payload.head_ref)
          \/ Lacks(Payload.base, Payload.base_ref)
    \/ /\ Recordable("merged")
       /\ \/ Lacks(Payload.merged_by, Payload.merged_by_login)
          \/ Lacks(Payload.head, Payload.head_ref)
          \/ Lacks(Payload.base, Payload.base_ref)

MalformedTimestamp ==
    \/ Recordable("push") /\ Payload.head_commit = "obj" /\ Malformed(Payload.hc_timestamp)
    \/ Recordable("opened") /\ Malformed(Payload.created_at)
    \/ Recordable("merged") /\ Malformed(Payload.merged_at)

PayloadErrorCase == MissingField \/ MalformedTimestamp

\* C5: a push or recordable pull_request delivery that lacks a required field
\* or carries a malformed provider timestamp is answered 400, its timestamp is
\* not replaced by the ingestion time, and nothing is stored.
C5_PayloadErrorAnswered400 ==
    (Responded /\ PassedSignatureAndJson /\ PayloadErrorCase)
        => (Res.code = 400 /\ ~Res.stored)

\* what does hold: a missing required field is an uncaught KeyError or
\* TypeError: the answer is 500 and nothing is stored
MissingFieldCrashes ==
    (Responded /\ PassedSignatureAndJson /\ MissingField)
        => (Res.code = 500 /\ ~Res.stored)

\* an empty provider timestamp string is replaced by the ingestion time
EmptyTimestampDefaulted ==
    (Responded /\ Res.stored /\ Recordable("push") /\ Payload.head_commit = "obj"
     /\ Payload.hc_timestamp = Str(<<>>))
        => Newest.timestamp = Req.utcnow

\* the instant (in hours, UTC) each well-formed timestamp of the request
\* domain denotes
InstantOf(ts) ==
    CASE ts = Str(<<"01:00", "Z">>) -> 1
      [] ts = Str(<<"02:00", "Z">>) -> 2
      [] ts = Str(<<"03:00", "+01:00">>) -> 2
      [] ts = Str(<<"03:00">>) -> 3
      [] OTHER -> -1

\* a provider timestamp is present when the key holds a non-empty string
Present(ts) == ts.t = "str" /\ ts.v # <<>>

ExpectedTime(ts) == IF Present(ts) THEN InstantOf(ts) ELSE Req.utcnow

\* ref without one leading "refs/heads/", or ref itself if it has none
ExpectedBranch(ref) ==
    IF ref.t = "absent" THEN Str(<<>>)
    ELSE IF Len(ref.v) >= 1 /\ Head(ref.v) = "refs/heads/" THEN Str(Tail(ref.v))
    ELSE ref

\* C8: the record stored for a push delivery has event_type push, author
\* pusher.name, no from_branch, to_branch = ref without one leading
\* "refs/heads/" (ref itself if it does not start with it), and timestamp
\* head_commit.timestamp when present, the ingestion time otherwise.
C8_PushRecord ==
    (Responded /\ Res.stored /\ event_header(Req) = "push")
        => /\ Newest.event_type = "push"
           /\ Newest.author = Payload.pusher_name
           /\ Newest.from_branch = Null
           /\ Newest.to_branch = ExpectedBranch(Payload.ref)
           /\ Newest.timestamp =
                IF Payload.head_commit = "obj" THEN ExpectedTime(Payload.hc_timestamp)
                ELSE Req.utcnow

C8_Witness ==
    /\ Responded /\ Res.stored /\ event_header(Req) = "push"
    /\ Payload.ref = Str(<<"refs/heads/", "refs/heads/", "main">>)
    /\ Newest.to_branch = Str(<<"refs/heads/", "main">>)
    /\ Payload.hc_timestamp = Str(<<"03:00", "+01:00">>)
    /\ Newest.timestamp = 2

\* C9: the record stored for a pull_request delivery has from_branch
\* pull_request.head.ref and to_branch pull_request.base.ref; for action opened
\* it is a pull_request event by pull_request.user.login at created_at, for
\* action closed with merged true a merge event by pull_request.merged_by.login
\* at merged_at; the ingestion time stands in for an absent provider timestamp.
C9_PullRequestRecord ==
    (Responded /\ Res.stored /\ event_header(Req) = "pull_request")
        => /\ Newest.from_branch = Payload.head_ref
           /\ Newest.to_branch = Payload.base_ref
           /\ \/ /\ Payload.action = Str(<<"opened">>)
                 /\ Newest.event_type = "pull_request"
                 /\ Newest.author = Payload.user_login
                 /\ Newest.timestamp = ExpectedTime(Payload.created_at)
              \/ /\ Payload.action = Str(<<"closed">>) /\ Payload.merged = True
                 /\ Newest.event_type = "merge"
                 /\ Newest.author = Payload.merged_by_login
                 /\ Newest.timestamp = ExpectedTime(Payload.merged_at)

C9_Witness ==
    /\ Responded /\ Res.stored /\ event_header(Req) = "pull_request"
    /\ Newest.event_type = "merge" /\ Newest.author = Str(<<"carol">>)
    /\ Newest.from_branch = Str(<<"feature">>) /\ Newest.to_branch = Str(<<"main">>)
    /\ Payload.user_login = Str(<<"bob">>)
    /\ Payload.created_at = Str(<<"01:00", "Z">>) /\ Newest.timestamp = 2

SignatureErrors ==
    {"Missing X-Hub-Signature-256 header", "Malformed X-Hub-Signature-256 header",
     "We only support sha256 signatures", "Invalid signature"}

\* C10: with no secret configured the response code, and whether a record is
\* stored, are the same whatever the X-Hub-Signature-256 header is, and the
\* response is never a signature error.
C10_NoSecretIgnoresSignature ==
    (GITHUB_SECRET = "" /\ Responded)
        => /\ Res.text \notin SignatureErrors
           /\ Res.parsed
           /\ \A g \in SigHeaders :
                LET other == github_webhook(GITHUB_SECRET, [Req EXCEPT !.sig = g]) IN
                other.code = Res.code /\ other.stored = Res.stored /\ other.doc = Res.doc

C10_Witness ==
    /\ GITHUB_SECRET = "" /\ Responded /\ Req.sig = <<"sha256", HexDigest("guess", "d1")>>
    /\ Res.code = 201 /\ Res.stored

ReachesSave ==
    /\ exchange.phase = "received"
    /\ PassedSignatureAndJson
    /\ Req.json = "object" /\ Payload.repository # "null"
    /\ normalize(event_header(Req), Payload, Req.utcnow).kind = "fields"
    /\ Truthy(normalize(event_header(Req), Payload, Req.utcnow).author)
    /\ Truthy(normalize(event_header(Req), Payload, Req.utcnow).to_branch)

\* C6: when the save of a normalised delivery fails the response is 500
\* "Database error" after exactly one save attempt and the store is unchanged;
\* when it succeeds the response is 201 "Recorded <event_type> event", naming
\* the event type of the record just stored.
C6_SaveOutcome ==
    [][ReachesSave =>
        IF Req.db = "fail"
        THEN /\ exchange'.res.code = 500 /\ exchange'.res.text = "Database error"
             /\ exchange'.res.saves = 1 /\ store' = store
        ELSE /\ exchange'.res.code = 201 /\ exchange'.res.text = "Recorded"
             /\ exchange'.res.saves = 1
             /\ Len(store') = Len(store) + 1
             /\ exchange'.res.arg = Str(<<store'[Len(store')].event_type>>)]_vars

C6_Witness ==
    /\ Responded /\ Req.db = "fail" /\ Res.code = 500 /\ Res.text = "Database error"
    /\ Res.saves = 1 /\ store = <<EarlierPush>>
    /\ event_header(Req) = "pull_request"

----------------------------------------------------------------------------
(* Properties of the running system (Spec) *)

\* the delivery was normalised, and its record has no author or no to_branch
LacksRequired ==
    /\ PassedSignatureAndJson
    /\ Req.json = "object" /\ Payload.repository # "null"
    /\ LET n == normalize(event_header(Req), Payload, Req.utcnow) IN
        /\ n.kind = "fields"
        /\ \/ n.author \in {Null, Str(<<>>)}
           \/ n.to_branch \in {Null, Str(<<>>)}

\* C2: every persisted record has a non-null, non-empty event_type, author,
\* to_branch and timestamp; a delivery whose normalised record lacks one of
\* them is answered 400 and not persisted.
C2_PersistedRecordsComplete ==
    /\ \A i \in 1..Len(store) :
        /\ store[i].event_type \in {"push", "pull_request", "merge"}
        /\ store[i].author.t = "str" /\ store[i].author.v # <<>>
        /\ store[i].to_branch.t = "str" /\ store[i].to_branch.v # <<>>
        /\ store[i].timestamp >= 0
    /\ (Responded /\ LacksRequired) => (Res.code = 400 /\ ~Res.stored)

C2_Witness ==
    /\ Responded /\ LacksRequired /\ Res.code = 400
    /\ Payload.pusher_name = Str(<<>>)
    /\ Len(store) = 1

\* C3: the store holds exactly one record per delivery answered 201 and no
\* other: only a delivery answered 201 adds a record, it adds one, and no
\* request changes or removes a stored record.
C3_OneRecordPerAcceptedDelivery ==
    /\ [](Len(store) = accepted)
    /\ [][IF exchange.phase = "received" /\ exchange'.res.code = 201
          THEN Len(store') = Len(store) + 1 /\ SubSeq(store', 1, Len(store)) = store
          ELSE store' = store]_vars

C3_Witness ==
    /\ Responded /\ Res.code = 500 /\ Res.text = "Database error"
    /\ Len(store) = 1 /\ accepted = 1

\* the limit each query string of the request domain asks for
RequestedLimit(param) ==
    CASE param = Str(<<"0">>) -> 0
      [] param = Str(<<"1">>) -> 1
      [] param = Str(<<"2">>) -> 2
      [] param = Str(<<"2", "0">>) -> 20
      [] param = Str(<<"-", "1">>) -> -1
      [] OTHER -> 20

====
